---- MODULE Spec2Model ----
(***************************************************************************)
(* Model of the grammar-check bot of main.go: main's start-up, the update  *)
(* loop of GrammarBot.Start, and the two handlers handleMessage and        *)
(* handleCommand, cut at the blocking external calls (bot.Send and         *)
(* Models.GenerateContent).                                                *)
(*                                                                         *)
(* A text (Go string) is a sequence of pieces.  User text and model output *)
(* are sequences of one-character strings; a literal of the source is one  *)
(* piece, except that a character outside ASCII is written as its code     *)
(* point ("U+1F4DD").                                                      *)
(***************************************************************************)
EXTENDS Naturals, Sequences, FiniteSets

VARIABLES telegramToken, geminiAPIKey, gb, pc, cur, updates, fed, observed,
          sent, genaiCalls, logs, done

vars == <<telegramToken, geminiAPIKey, gb, pc, cur, updates, fed, observed,
          sent, genaiCalls, logs, done>>

----------------------------------------------------------------------------
(* Bounds *)

MaxEvents == 2      \* updates the feed produces in one run
MaxChat   == 2      \* chat ids 1..MaxChat
ChanCap   == 1      \* modelled capacity of the updates channel

----------------------------------------------------------------------------
(* Texts *)

RECURSIVE IndexFrom(_, _, _)
IndexFrom(s, c, i) ==
    IF i > Len(s) THEN 0
    ELSE IF s[i] = c THEN i
    ELSE IndexFrom(s, c, i + 1)

\* strings.Index(s, c) for a one-character c, 1-based; 0 is Go's -1
Index(s, c) == IndexFrom(s, c, 1)

\* strings.HasPrefix(s, p) for a one-character p
HasPrefix(s, p) == Len(s) >= 1 /\ s[1] = p

\* s[lo:hi] of Go (0-based, hi exclusive)
Slice(s, lo, hi) == SubSeq(s, lo + 1, hi)

\* the literals of main.go (the three long templates are abbreviated at "...")
StartName    == <<"s", "t", "a", "r", "t">>
HelpName     == <<"h", "e", "l", "p">>
welcomeText  == <<"U+1F44B", " Welcome to Grammar Check Bot!\n\nSend me any text message ... /help - Show help information">>
helpText     == <<"U+1F50D", " How to use Grammar Check Bot:\n\n1. Simply send me any text message ... before sending it elsewhere!">>
unknownText  == <<"Unknown command. Use /help to see available commands.">>
apologyText  == <<"Sorry, I encountered an error while checking your grammar. Please try again later.">>
responseLabel == <<"U+1F4DD", " Grammar check for your message:\n\n">>
promptHead   == <<"System:\nYou are a world-class English language assistant ... \n\nUser:\n">>
MarkdownV2   == "MarkdownV2"
ChatTyping   == "typing"

----------------------------------------------------------------------------
(* Inputs: what the platform feed and the model service can deliver *)

Cmd(off, len) == [type |-> "bot_command", offset |-> off, length |-> len]

\* text and entities of a message as the platform reports them: a
\* bot_command entity covers "/" followed by at least one command character,
\* wherever in the text it stands;
\* a message without text (a photo, a sticker) has the empty Text
MessageShapes ==
    { [text |-> <<>>, entities |-> <<>>],
      [text |-> <<"a", " ", "/", "x">>, entities |-> <<Cmd(2, 2)>>],
      [text |-> <<"/">> \o StartName, entities |-> <<Cmd(0, 6)>>],
      [text |-> <<"/">> \o HelpName \o <<"@", "b">>, entities |-> <<Cmd(0, 7)>>],
      [text |-> <<"/", "x">>, entities |-> <<Cmd(0, 2)>>],
      [text |-> <<"/">>, entities |-> <<>>] }

Chats == 1..MaxChat

\* tgbotapi.Message, the fields main.go reads
Message(id, chat, shape) ==
    [MessageID |-> id, ChatID |-> chat, Text |-> shape.text,
     Entities |-> shape.entities]

\* result.Text() of a successful generation
Responses == { <<>>, <<"~", "a", "~">> }

----------------------------------------------------------------------------
(* The platform library's view of a message *)

\* Message.IsCommand: the first entity is a bot_command at offset 0
IsCommand(m) ==
    /\ Len(m.Entities) > 0
    /\ m.Entities[1].offset = 0
    /\ m.Entities[1].type = "bot_command"

\* Message.CommandWithAt: Text[1:entity.Length], "" when not a command
CommandWithAt(m) ==
    IF ~IsCommand(m) THEN <<>> ELSE Slice(m.Text, 1, m.Entities[1].length)

\* Message.Command: the command name without "/" and without "@botname"
Command(m) ==
    LET command == CommandWithAt(m)
        i == Index(command, "@")
    IN  IF i # 0 THEN Slice(command, 0, i - 1) ELSE command

\* tgbotapi.NewMessage: no reply-to id (0), no parse mode ("")
NewMessage(chatID, text) ==
    [kind |-> "message", ChatID |-> chatID, Text |-> text,
     ReplyToMessageID |-> 0, ParseMode |-> "", Action |-> ""]

\* tgbotapi.NewChatAction
NewChatAction(chatID, action) ==
    [kind |-> "action", ChatID |-> chatID, Text |-> <<>>,
     ReplyToMessageID |-> 0, ParseMode |-> "", Action |-> action]

----------------------------------------------------------------------------
(* What the handlers build *)

\* variant of SkipMessage: the empty-text test is missing
SkipMessagePrefixOnly(m) == HasPrefix(m.Text, "/")

\* handleMessage, line 70: skip if the message is empty or is a command
SkipMessage(m) == m.Text = <<>> \/ HasPrefix(m.Text, "/")

\* handleMessage, line 75
typingAction(m) == NewChatAction(m.ChatID, ChatTyping)

\* checkGrammar: the prompt is the fixed template with the text at %s
Prompt(text) == promptHead \o text

\* handleMessage, line 90
responseText(correctedText) == responseLabel \o correctedText

\* variant of errorMsg: the apology is not threaded
errorMsgUnthreaded(m) == NewMessage(m.ChatID, apologyText)

\* variant of errorMsg: the apology asks for MarkdownV2 too
errorMsgRich(m) ==
    [NewMessage(m.ChatID, apologyText) EXCEPT
        !.ReplyToMessageID = m.MessageID, !.ParseMode = MarkdownV2]

\* handleMessage, lines 83-84
errorMsg(m) ==
    [NewMessage(m.ChatID, apologyText) EXCEPT !.ReplyToMessageID = m.MessageID]

\* variant of resultMsg: the result is not threaded
resultMsgUnthreaded(m, correctedText) ==
    [NewMessage(m.ChatID, responseText(correctedText)) EXCEPT
        !.ParseMode = MarkdownV2]

\* variant of resultMsg: the chat id is used as the reply-to id
resultMsgReplyToChat(m, correctedText) ==
    [NewMessage(m.ChatID, responseText(correctedText)) EXCEPT
        !.ReplyToMessageID = m.ChatID, !.ParseMode = MarkdownV2]

\* handleMessage, lines 92-94
resultMsg(m, correctedText) ==
    [NewMessage(m.ChatID, responseText(correctedText)) EXCEPT
        !.ReplyToMessageID = m.MessageID, !.ParseMode = MarkdownV2]

\* variant of commandMsg: the help reply is threaded to the command
commandMsgThreaded(m) ==
    IF Command(m) = StartName
    THEN [NewMessage(m.ChatID, welcomeText) EXCEPT !.ParseMode = MarkdownV2]
    ELSE IF Command(m) = HelpName
    THEN [NewMessage(m.ChatID, helpText) EXCEPT
            !.ParseMode = MarkdownV2, !.ReplyToMessageID = m.MessageID]
    ELSE NewMessage(m.ChatID, unknownText)

\* variant of commandMsg: the default branch answers with the help text
commandMsgHelpDefault(m) ==
    IF Command(m) = StartName
    THEN [NewMessage(m.ChatID, welcomeText) EXCEPT !.ParseMode = MarkdownV2]
    ELSE [NewMessage(m.ChatID, helpText) EXCEPT !.ParseMode = MarkdownV2]

\* variant of commandMsg: the default branch sets the parse mode too
commandMsgAllRich(m) ==
    IF Command(m) = StartName
    THEN [NewMessage(m.ChatID, welcomeText) EXCEPT !.ParseMode = MarkdownV2]
    ELSE IF Command(m) = HelpName
    THEN [NewMessage(m.ChatID, helpText) EXCEPT !.ParseMode = MarkdownV2]
    ELSE [NewMessage(m.ChatID, unknownText) EXCEPT !.ParseMode = MarkdownV2]

\* handleCommand: the message of the branch the switch takes
commandMsg(m) ==
    IF Command(m) = StartName
    THEN [NewMessage(m.ChatID, welcomeText) EXCEPT !.ParseMode = MarkdownV2]
    ELSE IF Command(m) = HelpName
    THEN [NewMessage(m.ChatID, helpText) EXCEPT !.ParseMode = MarkdownV2]
    ELSE NewMessage(m.ChatID, unknownText)

----------------------------------------------------------------------------
(* State *)

\* a call of bot.Send for update ev with chattable c
Outgoing(ev, c) == [ev |-> ev, c |-> c, status |-> "pending"]

\* a call of genAI.Models.GenerateContent for update ev
Generation(ev, prompt) ==
    [ev |-> ev, model |-> "gemini-2.5-flash-preview-05-20", prompt |-> prompt,
     status |-> "pending", resp |-> <<>>]

LogLine(ev, msg) == [ev |-> ev, msg |-> msg]

\* the two client handles a GrammarBot holds: "nil" before construction,
\* "ok" once constructed, "err" when the constructor failed
Handles(bot, genAI) == [bot |-> bot, genAI |-> genAI]

Init ==
    /\ telegramToken \in {"", "token"}
    /\ geminiAPIKey \in {"", "key"}
    /\ gb = Handles("nil", "nil")
    /\ pc = "main"
    /\ cur = 0
    /\ updates = <<>>
    /\ fed = 0
    /\ observed = <<>>
    /\ sent = <<>>
    /\ genaiCalls = <<>>
    /\ logs = <<>>
    /\ done = {}

\* variant of CurMessage: the handler keeps the first message it has seen
CurMessageStale ==
    IF observed[1].Message # <<>> THEN observed[1].Message[1]
    ELSE observed[cur].Message[1]

\* the message of the update being handled
CurMessage == observed[cur].Message[1]

\* bot.Send returns for the pending call of the current update
SendReturns(ok) ==
    \E i \in 1..Len(sent) :
        /\ sent[i].ev = cur
        /\ sent[i].status = "pending"
        /\ sent' = [sent EXCEPT ![i].status = IF ok THEN "ok" ELSE "failed"]

----------------------------------------------------------------------------
(* main and NewGrammarBot *)

\* variant of Main: the test of GEMINI_API_KEY is missing
MainNoKeyCheck ==
    /\ pc = "main"
    /\ \E botErr \in BOOLEAN, clientErr \in BOOLEAN :
        IF telegramToken = ""
        THEN /\ logs' = Append(logs, LogLine(0, "TELEGRAM_BOT_TOKEN environment variable is required"))
             /\ gb' = gb
             /\ pc' = "exited"
        ELSE IF botErr
        THEN /\ logs' = Append(logs, LogLine(0, "failed to create telegram bot"))
             /\ gb' = Handles("err", "nil")
             /\ pc' = "exited"
        ELSE IF clientErr
        THEN /\ logs' = Append(logs, LogLine(0, "failed to create genai client"))
             /\ gb' = Handles("ok", "err")
             /\ pc' = "exited"
        ELSE /\ logs' = logs \o <<LogLine(0, "Starting Grammar Check Bot..."),
                               LogLine(0, "Bot authorized on account")>>
             /\ gb' = Handles("ok", "ok")
             /\ pc' = "idle"
    /\ UNCHANGED <<telegramToken, geminiAPIKey, cur, updates, fed, observed,
                   sent, genaiCalls, done>>

\* main up to the entry of the update loop: the two secrets are tested, then
\* NewGrammarBot constructs the platform client, then the model client
Main ==
    /\ pc = "main"
    /\ \E botErr \in BOOLEAN, clientErr \in BOOLEAN :
        IF telegramToken = ""
        THEN /\ logs' = Append(logs, LogLine(0, "TELEGRAM_BOT_TOKEN environment variable is required"))
             /\ gb' = gb
             /\ pc' = "exited"
        ELSE IF geminiAPIKey = ""
        THEN /\ logs' = Append(logs, LogLine(0, "GEMINI_API_KEY environment variable is required"))
             /\ gb' = gb
             /\ pc' = "exited"
        ELSE IF botErr
        THEN /\ logs' = Append(logs, LogLine(0, "failed to create telegram bot"))
             /\ gb' = Handles("err", "nil")
             /\ pc' = "exited"
        ELSE IF clientErr
        THEN /\ logs' = Append(logs, LogLine(0, "failed to create genai client"))
             /\ gb' = Handles("ok", "err")
             /\ pc' = "exited"
        ELSE /\ logs' = logs \o <<LogLine(0, "Starting Grammar Check Bot..."),
                               LogLine(0, "Bot authorized on account")>>
             /\ gb' = Handles("ok", "ok")
             /\ pc' = "idle"
    /\ UNCHANGED <<telegramToken, geminiAPIKey, cur, updates, fed, observed,
                   sent, genaiCalls, done>>

----------------------------------------------------------------------------
(* The update feed: the goroutine of GetUpdatesChan fills the channel.     *)
(* Update ids count up; message ids count up within a chat.                *)

\* tgbotapi.Update; Message is a pointer: <<>> is nil, <<m>> points to m
Update(id, om) == [UpdateID |-> id, Message |-> om]

RECURSIVE MessagesIn(_, _)
MessagesIn(us, c) ==
    IF us = <<>> THEN 0
    ELSE (IF Head(us).Message # <<>> /\ Head(us).Message[1].ChatID = c THEN 1 ELSE 0)
         + MessagesIn(Tail(us), c)

NextMessageID(c) == MessagesIn(observed \o updates, c) + 1

Feed ==
    /\ pc \notin {"main", "exited"}
    /\ fed < MaxEvents
    /\ Len(updates) < ChanCap
    /\ \/ updates' = Append(updates, Update(fed + 1, <<>>))
       \/ \E c \in Chats, shape \in MessageShapes :
            updates' = Append(updates,
                Update(fed + 1, <<Message(NextMessageID(c), c, shape)>>))
    /\ fed' = fed + 1
    /\ UNCHANGED <<telegramToken, geminiAPIKey, gb, pc, cur, observed,
                   sent, genaiCalls, logs, done>>

----------------------------------------------------------------------------
(* GrammarBot.Start: one iteration of "for update := range updates" *)

\* variant of LoopReady: each handler runs in a goroutine of its own
LoopReadyAlways == TRUE

\* the loop takes the next update only when the handler of the previous
\* one has returned
LoopReady == pc = "idle"

\* variant of ReceiveNonMessage: the nil test is missing, and the loop
\* stops at the nil message
ReceiveNonMessageCrash ==
    /\ LoopReady
    /\ updates # <<>>
    /\ Head(updates).Message = <<>>
    /\ observed' = Append(observed, Head(updates))
    /\ updates' = Tail(updates)
    /\ pc' = "exited"
    /\ UNCHANGED <<telegramToken, geminiAPIKey, gb, cur, fed, sent,
                   genaiCalls, logs, done>>

\* update.Message == nil: continue
ReceiveNonMessage ==
    /\ LoopReady
    /\ updates # <<>>
    /\ Head(updates).Message = <<>>
    /\ observed' = Append(observed, Head(updates))
    /\ updates' = Tail(updates)
    /\ done' = done \cup {Head(updates).UpdateID}
    /\ UNCHANGED <<telegramToken, geminiAPIKey, gb, pc, cur, fed, sent,
                   genaiCalls, logs>>

\* update.Message.IsCommand(): handleCommand builds its message and calls Send
ReceiveCommand ==
    /\ LoopReady
    /\ updates # <<>>
    /\ Head(updates).Message # <<>>
    /\ LET u == Head(updates)
           m == u.Message[1]
       IN  /\ IsCommand(m)
           /\ observed' = Append(observed, u)
           /\ updates' = Tail(updates)
           /\ cur' = u.UpdateID
           /\ sent' = Append(sent, Outgoing(u.UpdateID, commandMsg(m)))
           /\ pc' = "command_send"
    /\ UNCHANGED <<telegramToken, geminiAPIKey, gb, fed, genaiCalls, logs, done>>

\* handleMessage returns at line 71
ReceiveSkipped ==
    /\ LoopReady
    /\ updates # <<>>
    /\ Head(updates).Message # <<>>
    /\ LET u == Head(updates)
           m == u.Message[1]
       IN  /\ ~IsCommand(m)
           /\ SkipMessage(m)
           /\ observed' = Append(observed, u)
           /\ updates' = Tail(updates)
           /\ done' = done \cup {u.UpdateID}
    /\ UNCHANGED <<telegramToken, geminiAPIKey, gb, pc, cur, fed, sent,
                   genaiCalls, logs>>

\* handleMessage sends the typing action (line 76)
ReceiveText ==
    /\ LoopReady
    /\ updates # <<>>
    /\ Head(updates).Message # <<>>
    /\ LET u == Head(updates)
           m == u.Message[1]
       IN  /\ ~IsCommand(m)
           /\ ~SkipMessage(m)
           /\ observed' = Append(observed, u)
           /\ updates' = Tail(updates)
           /\ cur' = u.UpdateID
           /\ sent' = Append(sent, Outgoing(u.UpdateID, typingAction(m)))
           /\ pc' = "typing_send"
    /\ UNCHANGED <<telegramToken, geminiAPIKey, gb, fed, genaiCalls, logs, done>>

----------------------------------------------------------------------------
(* handleMessage after the typing action *)

\* variant of TypingSendReturns: the handler returns when the typing action
\* could not be sent
TypingSendReturnsChecked ==
    /\ pc = "typing_send"
    /\ \E ok \in BOOLEAN :
        /\ SendReturns(ok)
        /\ IF ok
           THEN /\ genaiCalls' = Append(genaiCalls,
                                        Generation(cur, Prompt(CurMessage.Text)))
                /\ pc' = "generate"
                /\ UNCHANGED <<cur, done>>
           ELSE /\ done' = done \cup {cur}
                /\ cur' = 0
                /\ pc' = "idle"
                /\ UNCHANGED genaiCalls
    /\ UNCHANGED <<telegramToken, geminiAPIKey, gb, updates, fed, observed, logs>>

\* line 76 returns, its results are dropped; checkGrammar issues the request
TypingSendReturns ==
    /\ pc = "typing_send"
    /\ \E ok \in BOOLEAN : SendReturns(ok)
    /\ genaiCalls' = Append(genaiCalls, Generation(cur, Prompt(CurMessage.Text)))
    /\ pc' = "generate"
    /\ UNCHANGED <<telegramToken, geminiAPIKey, gb, cur, updates, fed, observed,
                   logs, done>>

GenerationReturns(status, resp) ==
    \E i \in 1..Len(genaiCalls) :
        /\ genaiCalls[i].ev = cur
        /\ genaiCalls[i].status = "pending"
        /\ genaiCalls' = [genaiCalls EXCEPT ![i].status = status, ![i].resp = resp]

\* variant of GenerateFails: the error of the request is fatal
GenerateFailsFatal ==
    /\ pc = "generate"
    /\ GenerationReturns("err", <<>>)
    /\ logs' = Append(logs, LogLine(cur, "Error checking grammar"))
    /\ pc' = "exited"
    /\ UNCHANGED <<telegramToken, geminiAPIKey, gb, cur, updates, fed, observed,
                   sent, done>>

\* variant of GenerateFails: the request is issued again after an error
GenerateFailsRetry ==
    /\ pc = "generate"
    /\ \E i \in 1..Len(genaiCalls) :
        /\ genaiCalls[i].ev = cur
        /\ genaiCalls[i].status = "pending"
        /\ genaiCalls' = Append([genaiCalls EXCEPT ![i].status = "err"],
                                Generation(cur, Prompt(CurMessage.Text)))
    /\ logs' = Append(logs, LogLine(cur, "Error checking grammar"))
    /\ UNCHANGED <<telegramToken, geminiAPIKey, gb, pc, cur, updates, fed,
                   observed, sent, done>>

\* lines 80-85: the request failed; log, then send the apology
GenerateFails ==
    /\ pc = "generate"
    /\ GenerationReturns("err", <<>>)
    /\ logs' = Append(logs, LogLine(cur, "Error checking grammar"))
    /\ sent' = Append(sent, Outgoing(cur, errorMsg(CurMessage)))
    /\ pc' = "apology_send"
    /\ UNCHANGED <<telegramToken, geminiAPIKey, gb, cur, updates, fed, observed, done>>

\* lines 90-97: the request succeeded; send the result
GenerateSucceeds ==
    /\ pc = "generate"
    /\ \E r \in Responses :
        /\ GenerationReturns("ok", r)
        /\ sent' = Append(sent, Outgoing(cur, resultMsg(CurMessage, r)))
    /\ pc' = "result_send"
    /\ UNCHANGED <<telegramToken, geminiAPIKey, gb, cur, updates, fed, observed,
                   logs, done>>

\* line 85 returns, its results are dropped; line 86 returns
ApologySendReturns ==
    /\ pc = "apology_send"
    /\ \E ok \in BOOLEAN : SendReturns(ok)
    /\ done' = done \cup {cur}
    /\ cur' = 0
    /\ pc' = "idle"
    /\ UNCHANGED <<telegramToken, geminiAPIKey, gb, updates, fed, observed,
                   genaiCalls, logs>>

\* lines 97-99: the error of the result's Send is logged
ResultSendReturns ==
    /\ pc = "result_send"
    /\ \E ok \in BOOLEAN :
        /\ SendReturns(ok)
        /\ logs' = IF ok THEN logs
                   ELSE Append(logs, LogLine(cur, "Error sending message"))
    /\ done' = done \cup {cur}
    /\ cur' = 0
    /\ pc' = "idle"
    /\ UNCHANGED <<telegramToken, geminiAPIKey, gb, updates, fed, observed, genaiCalls>>

----------------------------------------------------------------------------
(* handleCommand after its Send *)

\* lines 119, 136, 140 return, their results are dropped
CommandSendReturns ==
    /\ pc = "command_send"
    /\ \E ok \in BOOLEAN : SendReturns(ok)
    /\ done' = done \cup {cur}
    /\ cur' = 0
    /\ pc' = "idle"
    /\ UNCHANGED <<telegramToken, geminiAPIKey, gb, updates, fed, observed,
                   genaiCalls, logs>>

----------------------------------------------------------------------------

Next ==
    \/ Main
    \/ Feed
    \/ ReceiveNonMessage
    \/ ReceiveCommand
    \/ ReceiveSkipped
    \/ ReceiveText
    \/ TypingSendReturns
    \/ GenerateFails
    \/ GenerateSucceeds
    \/ ApologySendReturns
    \/ ResultSendReturns
    \/ CommandSendReturns

Spec == Init /\ [][Next]_vars

\* the loop and the handlers make progress: the range loop takes the next
\* update when there is one, and every external call returns
Handle ==
    \/ ReceiveNonMessage
    \/ ReceiveCommand
    \/ ReceiveSkipped
    \/ ReceiveText
    \/ TypingSendReturns
    \/ GenerateFails
    \/ GenerateSucceeds
    \/ ApologySendReturns
    \/ ResultSendReturns
    \/ CommandSendReturns

FairSpec == Spec /\ WF_vars(Handle)

TypeOK ==
    /\ pc \in {"main", "exited", "idle", "command_send", "typing_send",
               "generate", "apology_send", "result_send"}
    /\ cur \in 0..MaxEvents
    /\ fed \in 0..MaxEvents
    /\ Len(updates) <= ChanCap
    /\ done \subseteq 1..MaxEvents
    /\ gb \in { Handles(b, g) : b \in {"nil", "ok", "err"}, g \in {"nil", "ok", "err"} }

----------------------------------------------------------------------------
(* Vocabulary of the properties *)

\* the updates the loop has taken from the feed, by update id
Observed == 1..Len(observed)

\* update n carries a message
IsMessageEvent(n) == observed[n].Message # <<>>

EventMessage(n) == observed[n].Message[1]

\* update n is a message with non-empty text that does not begin with "/"
IsPlainTextEvent(n) ==
    /\ IsMessageEvent(n)
    /\ EventMessage(n).Text # <<>>
    /\ EventMessage(n).Text[1] # "/"

\* update n is a message whose text begins with the command marker
HasCommandMarker(n) ==
    /\ IsMessageEvent(n)
    /\ EventMessage(n).Text # <<>>
    /\ EventMessage(n).Text[1] = "/"

\* update n is a message the platform flags as a command
IsCommandEvent(n) == IsMessageEvent(n) /\ IsCommand(EventMessage(n))

\* positions in sent of the chat messages (not chat actions) sent for update n
Replies(n) == { i \in 1..Len(sent) : sent[i].ev = n /\ sent[i].c.kind = "message" }

\* positions in genaiCalls of the requests made for update n
Requests(n) == { i \in 1..Len(genaiCalls) : genaiCalls[i].ev = n }

Logged(n, msg) == \E i \in 1..Len(logs) : logs[i] = LogLine(n, msg)

\* the calls that have been issued and have not returned
PendingSends == { i \in 1..Len(sent) : sent[i].status = "pending" }
PendingRequests == { i \in 1..Len(genaiCalls) : genaiCalls[i].status = "pending" }

----------------------------------------------------------------------------
(* Properties *)

\* C1: for a message with non-empty text that is not a command, once the
\* correction request has succeeded with response R, exactly one reply exists
\* for the event: body = label followed by R unchanged, reply-to id = the
\* event's message id, chat id = the event's chat id, parse mode MarkdownV2.
C1_SuccessReply ==
    \A n \in Observed :
        IsPlainTextEvent(n) =>
            \A g \in Requests(n) :
                genaiCalls[g].status = "ok" =>
                    /\ Cardinality(Replies(n)) = 1
                    /\ \A i \in Replies(n) :
                        /\ sent[i].c.Text =
                              <<"U+1F4DD", " Grammar check for your message:\n\n">>
                                  \o genaiCalls[g].resp
                        /\ sent[i].c.ReplyToMessageID = EventMessage(n).MessageID
                        /\ sent[i].c.ChatID = EventMessage(n).ChatID
                        /\ sent[i].c.ParseMode = "MarkdownV2"

\* C1 witness: a handled text event in chat 2 whose request returned a
\* non-empty response and whose single reply went out
C1_Witness ==
    \E n \in done :
        /\ IsPlainTextEvent(n)
        /\ EventMessage(n).ChatID = 2
        /\ \E g \in Requests(n) :
              genaiCalls[g].status = "ok" /\ genaiCalls[g].resp = <<"~", "a", "~">>
        /\ Cardinality(Replies(n)) = 1

\* C2: for a message with non-empty text that is not a command, once the
\* correction request has failed, exactly one reply exists for the event: the
\* fixed apology, reply-threaded to the event's message id; the failure is
\* logged; and the process has not exited.
C2_FailureReply ==
    \A n \in Observed :
        IsPlainTextEvent(n) =>
            \A g \in Requests(n) :
                genaiCalls[g].status = "err" =>
                    /\ Cardinality(Replies(n)) = 1
                    /\ \A i \in Replies(n) :
                        /\ sent[i].c.Text = <<"Sorry, I encountered an error while checking your grammar. Please try again later.">>
                        /\ sent[i].c.ReplyToMessageID = EventMessage(n).MessageID
                        /\ sent[i].c.ChatID = EventMessage(n).ChatID
                    /\ Logged(n, "Error checking grammar")
                    /\ pc # "exited"

\* C2 witness: the request of the first event failed, its apology went out,
\* and the loop has handled the next event as well
C2_Witness ==
    /\ {1, 2} \subseteq done
    /\ IsPlainTextEvent(1)
    /\ \E g \in Requests(1) : genaiCalls[g].status = "err"
    /\ Cardinality(Replies(1)) = 1
    /\ pc = "idle"

\* C3 (as claimed): every handled message whose text begins with "/" has
\* exactly one reply, built from one of the three static templates, whatever
\* the platform's command flag.
C3_MarkerAlwaysAnswered ==
    \A n \in done :
        HasCommandMarker(n) =>
            /\ Cardinality(Replies(n)) = 1
            /\ \A i \in Replies(n) :
                  sent[i].c.Text \in {welcomeText, helpText, unknownText}

\* C4: a message with empty text gets no reply (nothing at all is sent for it).
C4_EmptyTextNoReply ==
    \A n \in Observed :
        (IsMessageEvent(n) /\ EventMessage(n).Text = <<>>) =>
            /\ Replies(n) = {}
            /\ \A i \in 1..Len(sent) : sent[i].ev # n

\* C4 witness: an empty-text message has been handled after another event
\* did get a reply
C4_Witness ==
    \E n \in done :
        /\ IsMessageEvent(n)
        /\ EventMessage(n).Text = <<>>
        /\ sent # <<>>

\* C5: a command event named "start" (resp. "help") has exactly one reply:
\* the welcome (resp. help) template, parse mode MarkdownV2, no reply-to id.
C5_StartHelpReply ==
    \A n \in Observed :
        (IsCommandEvent(n) /\ Command(EventMessage(n)) \in {StartName, HelpName}) =>
            /\ Cardinality(Replies(n)) = 1
            /\ \A i \in Replies(n) :
                /\ sent[i].c.Text =
                      (IF Command(EventMessage(n)) = StartName
                       THEN welcomeText ELSE helpText)
                /\ sent[i].c.ParseMode = "MarkdownV2"
                /\ sent[i].c.ReplyToMessageID = 0

\* C5 witness: a /start and a /help@b command have both been handled
C5_Witness ==
    /\ \E n \in done : IsCommandEvent(n) /\ Command(EventMessage(n)) = StartName
    /\ \E n \in done :
          /\ IsCommandEvent(n)
          /\ Command(EventMessage(n)) = HelpName
          /\ EventMessage(n).Text # <<"/">> \o HelpName

\* C6: a command event named neither "start" nor "help" has exactly one reply,
\* whose body is the literal unknown-command notice.
C6_UnknownCommandReply ==
    \A n \in Observed :
        (IsCommandEvent(n) /\ Command(EventMessage(n)) \notin {StartName, HelpName}) =>
            /\ Cardinality(Replies(n)) = 1
            /\ \A i \in Replies(n) :
                  sent[i].c.Text = <<"Unknown command. Use /help to see available commands.">>

\* C6 witness: the command /x has been handled
C6_Witness ==
    \E n \in done :
        /\ IsCommandEvent(n)
        /\ Command(EventMessage(n)) = <<"x">>
        /\ Replies(n) # {}

\* C7 (as claimed): every reply of a command handler has parse mode MarkdownV2.
C7_AllCommandRepliesRich ==
    \A i \in 1..Len(sent) :
        (sent[i].c.kind = "message" /\ IsCommandEvent(sent[i].ev)) =>
            sent[i].c.ParseMode = "MarkdownV2"

\* C7 (amended): the replies of the start and help handlers have parse mode
\* MarkdownV2; the reply to an unrecognized command has no parse mode.
C7_CommandReplyModes ==
    \A i \in 1..Len(sent) :
        (sent[i].c.kind = "message" /\ IsCommandEvent(sent[i].ev)) =>
            sent[i].c.ParseMode =
                (IF Command(EventMessage(sent[i].ev)) \in {StartName, HelpName}
                 THEN "MarkdownV2" ELSE "")

\* C7 witness: a rich command reply and a plain command reply have both
\* been submitted
C7_Witness ==
    /\ \E i \in 1..Len(sent) :
          /\ IsCommandEvent(sent[i].ev)
          /\ sent[i].c.ParseMode = "MarkdownV2"
          /\ sent[i].status # "pending"
    /\ \E i \in 1..Len(sent) :
          /\ IsCommandEvent(sent[i].ev)
          /\ sent[i].c.ParseMode = ""
          /\ sent[i].status # "pending"

\* C8 (as claimed): whenever the send of a reply has failed (result, apology
\* or command reply), the failure is logged, and nothing else is sent for
\* that event afterwards.
C8_SendFailureLogged ==
    \A i \in 1..Len(sent) :
        (sent[i].c.kind = "message" /\ sent[i].status = "failed") =>
            /\ Logged(sent[i].ev, "Error sending message")
            /\ \A j \in 1..Len(sent) : j > i => sent[j].ev # sent[i].ev

\* C9: every send carries the chat id of the event it was made for, and a
\* reply-to id that is set is the message id of that event, which the loop
\* has observed.
C9_ChatAndThread ==
    \A i \in 1..Len(sent) :
        /\ sent[i].ev \in Observed
        /\ IsMessageEvent(sent[i].ev)
        /\ sent[i].c.ChatID = EventMessage(sent[i].ev).ChatID
        /\ sent[i].c.ReplyToMessageID # 0 =>
              sent[i].c.ReplyToMessageID = EventMessage(sent[i].ev).MessageID

\* C9 witness: a threaded reply to the second message of chat 2, after
\* another threaded reply
C9_Witness ==
    \E i \in 1..Len(sent), j \in 1..Len(sent) :
        /\ i < j
        /\ sent[i].c.ReplyToMessageID # 0
        /\ sent[j].c.ReplyToMessageID = 2
        /\ sent[j].c.ChatID = 2
        /\ sent[j].status = "ok"

C11_EventuallyHandled == []<>(\A n \in 1..fed : n \in done)

\* C11 witness: the request of the first event failed and its apology could
\* not be sent, the result of the second event could not be sent either, and
\* both events are complete
C11_Witness ==
    /\ done = {1, 2}
    /\ \E g \in Requests(1) : genaiCalls[g].status = "err"
    /\ \E i \in Replies(1) : sent[i].status = "failed"
    /\ \E g \in Requests(2) : genaiCalls[g].status = "ok"
    /\ \E i \in Replies(2) : sent[i].status = "failed"

\* C12: when a secret is empty or a client constructor has failed, the
\* process has exited once main has run, and no update was ever delivered or
\* taken, nothing was sent and no request was made; so whatever is served is
\* served with both secrets set and both clients constructed.
C12_NoServiceWithoutSetup ==
    /\ (pc # "main" /\ (telegramToken = "" \/ geminiAPIKey = ""
                        \/ gb.bot # "ok" \/ gb.genAI # "ok")) =>
          /\ pc = "exited"
          /\ fed = 0 /\ updates = <<>> /\ observed = <<>>
          /\ sent = <<>> /\ genaiCalls = <<>>
    /\ (pc = "main") =>
          fed = 0 /\ observed = <<>> /\ sent = <<>> /\ genaiCalls = <<>>

\* C12 witness: both secrets are set, the platform client was constructed,
\* the model client was not, and the process has exited
C12_Witness ==
    /\ pc = "exited"
    /\ telegramToken # "" /\ geminiAPIKey # ""
    /\ gb = Handles("ok", "err")

\* C13: an update without a message is ignored: nothing is sent for it, no
\* request is made for it, and its loop iteration is complete as soon as the
\* loop has taken it.
C13_NonMessageIgnored ==
    \A n \in Observed :
        ~IsMessageEvent(n) =>
            /\ \A i \in 1..Len(sent) : sent[i].ev # n
            /\ Requests(n) = {}
            /\ n \in done
            /\ pc # "exited"

\* C13 witness: the first update carried no message, and the loop went on to
\* answer the second
C13_Witness ==
    /\ done = {1, 2}
    /\ ~IsMessageEvent(1)
    /\ Replies(2) # {}

\* C14: nothing is retried.  At most one request is ever made for an event
\* and exactly one for a handled message with non-empty text without the
\* command marker; none for a command, an empty text, a text with the marker
\* or a non-message update; and at most one reply is submitted per event,
\* also when the request or the send has failed.
C14_NoRetry ==
    \A n \in Observed :
        /\ Cardinality(Requests(n)) <= 1
        /\ Cardinality(Replies(n)) <= 1
        /\ (n \in done /\ IsPlainTextEvent(n)) => Cardinality(Requests(n)) = 1
        /\ ~IsPlainTextEvent(n) => Requests(n) = {}

\* C14 witness: a handled text event whose one request failed and whose one
\* apology could not be sent, next to a handled command without any request
C14_Witness ==
    \E n \in done, k \in done :
        /\ IsPlainTextEvent(n)
        /\ \E g \in Requests(n) : genaiCalls[g].status = "err"
        /\ \E i \in Replies(n) : sent[i].status = "failed"
        /\ IsCommandEvent(k)
        /\ Requests(k) = {}

\* the outcome of the correction service for update n: <<>> when no request
\* has returned, else <<status, response>>
Outcome(n) ==
    IF \E g \in Requests(n) : genaiCalls[g].status # "pending"
    THEN LET g == CHOOSE g \in Requests(n) : genaiCalls[g].status # "pending"
         IN  <<genaiCalls[g].status, genaiCalls[g].resp>>
    ELSE <<>>

\* the replies handling must produce for message m under outcome o, as a
\* function of m and o alone
ExpectedReplies(m, o) ==
    IF IsCommand(m) THEN {commandMsg(m)}
    ELSE IF SkipMessage(m) \/ o = <<>> THEN {}
    ELSE IF o[1] = "err" THEN {errorMsg(m)}
    ELSE {resultMsg(m, o[2])}

\* C15: handling is stateless across events: the replies submitted for an
\* event are a function of the event and of the service outcome for it,
\* whatever was handled before.
C15_Stateless ==
    \A n \in Observed :
        LET got == { sent[i].c : i \in Replies(n) }
        IN  /\ Cardinality(Replies(n)) = Cardinality(got)
            /\ got = (IF IsMessageEvent(n)
                      THEN ExpectedReplies(EventMessage(n), Outcome(n))
                      ELSE {})
            /\ \A g \in Requests(n) :
                  genaiCalls[g].prompt = Prompt(EventMessage(n).Text)

\* C15 witness: the second event is a text event in another chat than the
\* first, both were answered, with different service outcomes
C15_Witness ==
    /\ done = {1, 2}
    /\ IsPlainTextEvent(1) /\ IsPlainTextEvent(2)
    /\ EventMessage(1).ChatID # EventMessage(2).ChatID
    /\ Outcome(1) # <<>> /\ Outcome(2) # <<>>
    /\ Outcome(1)[1] # Outcome(2)[1]
    /\ Replies(2) # {}

\* positions in sent of the chat actions sent for update n
Actions(n) == { i \in 1..Len(sent) : sent[i].ev = n /\ sent[i].c.kind = "action" }

\* C16: a text event (non-empty, no command marker) has exactly one "typing"
\* chat action, addressed to its chat, and it has returned before the request
\* is issued; once it has returned the request exists, also when it failed;
\* its failure is not logged; no other event has a chat action.
C16_TypingFirst ==
    \A n \in Observed :
        /\ ~IsPlainTextEvent(n) => Actions(n) = {}
        /\ IsPlainTextEvent(n) =>
              /\ Cardinality(Actions(n)) = 1
              /\ \A i \in Actions(n) :
                    /\ sent[i].c.Action = "typing"
                    /\ sent[i].c.ChatID = EventMessage(n).ChatID
                    /\ \A j \in Replies(n) : i < j
                    /\ (sent[i].status = "pending") <=> (Requests(n) = {})
                    /\ Logged(n, "Error sending message") =>
                          \E j \in Replies(n) : sent[j].status = "failed"

\* C16 witness: the typing action of a handled text event failed, the request
\* was made all the same and its result was delivered; nothing was logged
\* for the event
C16_Witness ==
    \E n \in done :
        /\ \E i \in Actions(n) : sent[i].status = "failed"
        /\ \E g \in Requests(n) : genaiCalls[g].status = "ok"
        /\ \E j \in Replies(n) : sent[j].status = "ok"
        /\ \A i \in 1..Len(logs) : logs[i].ev # n

\* C17: in handleMessage the parse mode follows the outcome of the request:
\* the apology after a failure is plain, the result after a success asks for
\* MarkdownV2.
C17_ApologyPlain ==
    \A n \in Observed :
        IsPlainTextEvent(n) =>
            \A i \in Replies(n) :
                /\ Outcome(n) # <<>>
                /\ sent[i].c.ParseMode =
                      (IF Outcome(n)[1] = "err" THEN "" ELSE "MarkdownV2")
                /\ (sent[i].c.Text = apologyText) <=> (Outcome(n)[1] = "err")

\* C17 witness: a plain apology has been delivered after a rich result
C17_Witness ==
    \E i \in 1..Len(sent), j \in 1..Len(sent) :
        /\ i < j
        /\ sent[i].c.ParseMode = "MarkdownV2"
        /\ IsPlainTextEvent(sent[i].ev)
        /\ sent[j].c.Text = apologyText
        /\ sent[j].c.ParseMode = ""
        /\ sent[j].status = "ok"

====
